---- MODULE Spec2Model ----
(***************************************************************************)
(* Model of the admin authentication middleware checkAdminAuth of the      *)
(* design-tool backend (server.js).  One inbound request is followed from  *)
(* the entry of the middleware to its outcome (next() or a 401 response);  *)
(* the WordPress upstream is the environment and answers every outstanding *)
(* axios call with a network error, a non-2xx status or a 2xx body.        *)
(*                                                                         *)
(* Further specifications follow the other handlers of server.js that the  *)
(* middleware is compared with or stands in front of:                      *)
(*   ValidateSpec  GET /api/auth/validate for the same request,            *)
(*   LoginSpec     POST /api/auth/login, then the returned token presented *)
(*                 to checkAdminAuth,                                      *)
(*   ConcSpec      several requests inside checkAdminAuth at once,         *)
(*   LinksSpec     concurrent admitted POST /api/admin/links requests.     *)
(***************************************************************************)
EXTENDS Integers, Sequences, FiniteSets, TLC

VARIABLES
    WOOCOMMERCE_CONSUMER_KEY,     \* process configuration, read at startup
    WOOCOMMERCE_CONSUMER_SECRET,
    WORDPRESS_SECRET_TOKEN,
    authHeader,                   \* req.headers.authorization
    cookieHeader,                 \* req.headers.cookie || ''
    pc,                           \* position of the async handler
    calls,                        \* upstream requests issued so far, in order
    answers,                      \* what the upstream answered to each call
    reqUser,                      \* req.user
    reqWooCommerceAuth,           \* req.wooCommerceAuth
    nextCalls,                    \* number of times next() was called
    responses,                    \* responses sent: <<[status, error]>>
    gated,                        \* the matched route lists checkAdminAuth
    handlerRuns,                  \* times the route's handler chain was entered
    log,                          \* console output of checkAdminAuth
    aborted,                      \* the caller closed the inbound connection
    vPc,                          \* GET /api/auth/validate: handler position
    vValid,                       \* GET /api/auth/validate: valid field answered
    vCalls,                       \* GET /api/auth/validate: upstream calls issued
    username,                     \* POST /api/auth/login: req.body.username
    password,                     \* POST /api/auth/login: req.body.password
    loginPc,                      \* POST /api/auth/login: handler position
    loginCalls,                   \* POST /api/auth/login: upstream calls issued
    loginAnswers,                 \* POST /api/auth/login: answers received
    loginResponse,                \* POST /api/auth/login: response sent
    peers,                        \* concurrent requests inside checkAdminAuth
    linksFile,                    \* content of links.json
    posts                         \* concurrent POST /api/admin/links requests

vars == <<WOOCOMMERCE_CONSUMER_KEY, WOOCOMMERCE_CONSUMER_SECRET,
          WORDPRESS_SECRET_TOKEN, authHeader, cookieHeader, pc, calls, answers,
          reqUser, reqWooCommerceAuth, nextCalls, responses, gated,
          handlerRuns, log, aborted, vPc, vValid, vCalls, username, password,
          loginPc, loginCalls, loginAnswers, loginResponse, peers, linksFile,
          posts>>

config == <<WOOCOMMERCE_CONSUMER_KEY, WOOCOMMERCE_CONSUMER_SECRET,
            WORDPRESS_SECRET_TOKEN>>

request == <<authHeader, cookieHeader, gated>>

validate == <<vPc, vValid, vCalls>>

\* State of the handlers other than checkAdminAuth.
login == <<username, password, loginPc, loginCalls, loginAnswers, loginResponse>>

links == <<linksFile, posts>>

\* State of the handlers other than checkAdminAuth.
elsewhere == <<validate, login, peers, links>>

-----------------------------------------------------------------------------
(* Bounds *)

MaxTokenLen == 51        \* longest bearer token presented
MaxUserId == 2           \* user ids the upstream can report are 1..MaxUserId

-----------------------------------------------------------------------------
(* Values *)

ShortTokenThreshold == 50
BearerPrefixLen == 7          \* 'Bearer '.length, authHeader.substring(7)
LogPrefixLen == 20            \* authHeader.substring(0, 20)

\* A JavaScript property that is undefined / absent (falsy).
Absent == 0

UserIds == 1..MaxUserId

\* A token is the text after 'Bearer '.  Opaque tokens are told apart only by
\* their length; the two reserved strings keep their text.
LocalAdminToken == [text |-> "local-admin-token", len |-> 17]
CookieAuthToken == [text |-> "cookie-auth", len |-> 11]
OpaqueTokens ==
    {[text |-> "opaque", len |-> n] :
        n \in {0, LogPrefixLen - BearerPrefixLen, 15, ShortTokenThreshold - 1,
               ShortTokenThreshold, MaxTokenLen}}
Tokens == {LocalAdminToken, CookieAuthToken} \cup OpaqueTokens
NoToken == [text |-> "", len |-> 0]

\* req.headers.authorization: undefined, a value without the 'Bearer '
\* prefix, or 'Bearer ' followed by a token.
NoHeader == [present |-> FALSE, bearer |-> FALSE, token |-> NoToken]
BasicHeader == [present |-> TRUE, bearer |-> FALSE, token |-> NoToken]
BearerHeader(t) == [present |-> TRUE, bearer |-> TRUE, token |-> t]
AuthHeaders == {NoHeader, BasicHeader} \cup {BearerHeader(t) : t \in Tokens}

Cookies == {"", "wordpress_logged_in=abc"}

\* req.user: unset, or an object with an id and possibly a role.
NoUser == [set |-> FALSE, id |-> Absent, role |-> ""]
AdminUser == [set |-> TRUE, id |-> 1, role |-> "administrator"]
UserWithId(i) == [set |-> TRUE, id |-> i, role |-> ""]

\* The value of getWooCommerceAuth(): null, or 'Basic ' + base64(key:secret).
NoAuth == [scheme |-> "", credentials |-> <<>>]
BasicAuth(key, secret) == [scheme |-> "Basic", credentials |-> <<key, ":", secret>>]

-----------------------------------------------------------------------------
(* The upstream platform: URLs, calls and answers *)

SessionValidateUrl == [path |-> "/wp-json/design-tool/v1/auth/validate", query |-> <<>>]
JwtValidateUrl == [path |-> "/wp-json/jwt-auth/v1/token/validate", query |-> <<>>]

IsJwtPath(url) == url.path = "/wp-json/jwt-auth/v1/token/validate"

\* Variant: JWT paths are always skipped, whatever skipForJWT says.
addSecretTokenSkipsJwt(url, skipForJWT) ==
    IF WORDPRESS_SECRET_TOKEN = "" THEN url
    ELSE IF IsJwtPath(url) THEN url
    ELSE [url EXCEPT !.query = Append(@, <<"sgs-token", WORDPRESS_SECRET_TOKEN>>)]

addSecretToken(url, skipForJWT) ==
    IF WORDPRESS_SECRET_TOKEN = "" THEN url
    ELSE IF skipForJWT /\ IsJwtPath(url) THEN url
    ELSE [url EXCEPT !.query = Append(@, <<"sgs-token", WORDPRESS_SECRET_TOKEN>>)]

\* Variant: the Cookie header is never put on the call.
SessionCallWithoutCookie ==
    [method |-> "GET", url |-> addSecretToken(SessionValidateUrl, FALSE),
     cookieSent |-> FALSE, cookie |-> "", bearer |-> NoToken,
     nonce |-> NoToken, timeout |-> 0]

\* axios.get(addSecretToken(.../auth/validate), {headers: {Cookie: cookieHeader}})
\* The Cookie header is sent only when cookieHeader is non-empty.  Neither an
\* Authorization header nor a nonce (X-WP-Nonce) is part of the call.
SessionCall ==
    [method |-> "GET", url |-> addSecretToken(SessionValidateUrl, FALSE),
     cookieSent |-> cookieHeader # "", cookie |-> cookieHeader, bearer |-> NoToken,
     nonce |-> NoToken, timeout |-> 0]

\* axios.post(validateUrl, {}, {headers: {Authorization: `Bearer ${token}`}})
JwtCall(url, token) ==
    [method |-> "POST", url |-> url,
     cookieSent |-> FALSE, cookie |-> "", bearer |-> token,
     nonce |-> NoToken, timeout |-> 0]

HttpStatuses == {200, 401, 403, 404, 500}
Is2xx(status) == status >= 200 /\ status < 300

\* Body of a session-validation answer: anything that is not a JSON object
\* with the expected fields (json = FALSE), or an object with optional
\* fields valid and user_id.
EmptySessionBody == [json |-> FALSE, valid |-> FALSE, user_id |-> Absent]
SessionBodies ==
    {EmptySessionBody} \cup
    [json : {TRUE}, valid : BOOLEAN, user_id : {Absent} \cup UserIds]

\* Roles an upstream user object may carry ("" when it carries none).
UpstreamRoles == {"", "subscriber", "administrator"}

\* Body of a bearer-validation answer: response.data.data absent, or an
\* object with optional fields user (an object with optional id and role),
\* status, id.
NoUserObject == [present |-> FALSE, id |-> Absent, role |-> ""]
EmptyJwtBody ==
    [hasData |-> FALSE, user |-> NoUserObject, status |-> Absent, id |-> Absent]
JwtBodies ==
    {EmptyJwtBody} \cup
    [hasData : {TRUE},
     user : {NoUserObject} \cup
            [present : {TRUE}, id : {Absent} \cup UserIds, role : UpstreamRoles],
     status : {Absent, 200, 403},
     id : {Absent} \cup UserIds]

\* An answer as axios reports it: no response at all (connection refused,
\* reset, aborted by the peer), a non-2xx response (its body is only
\* logged, never inspected), or a 2xx response with any body.
Answers(bodies, empty) ==
    {[kind |-> "error", status |-> 0, body |-> empty]}
    \cup [kind : {"response"}, status : {st \in HttpStatuses : ~Is2xx(st)}, body : {empty}]
    \cup [kind : {"response"}, status : {st \in HttpStatuses : Is2xx(st)}, body : bodies]
SessionAnswers == Answers(SessionBodies, EmptySessionBody)
JwtAnswers == Answers(JwtBodies, EmptyJwtBody)

\* axios resolves on 2xx and rejects on everything else.
Resolved(ans) == ans.kind = "response" /\ Is2xx(ans.status)

-----------------------------------------------------------------------------
(* Pure helpers of checkAdminAuth *)

\* authHeader && authHeader.startsWith('Bearer ')
IsBearer(h) == h.present /\ h.bearer

\* authHeader.substring(7)
TokenOf(h) == h.token

\* Variant: the secret is left out of the encoded credential.
getWooCommerceAuthDropsSecret ==
    IF WOOCOMMERCE_CONSUMER_KEY # "" /\ WOOCOMMERCE_CONSUMER_SECRET # ""
    THEN BasicAuth(WOOCOMMERCE_CONSUMER_KEY, "")
    ELSE NoAuth

\* Variant: one of the two keys is enough (|| in place of &&).
getWooCommerceAuthEitherKey ==
    IF WOOCOMMERCE_CONSUMER_KEY # "" \/ WOOCOMMERCE_CONSUMER_SECRET # ""
    THEN BasicAuth(WOOCOMMERCE_CONSUMER_KEY, WOOCOMMERCE_CONSUMER_SECRET)
    ELSE NoAuth

getWooCommerceAuth ==
    IF WOOCOMMERCE_CONSUMER_KEY # "" /\ WOOCOMMERCE_CONSUMER_SECRET # ""
    THEN BasicAuth(WOOCOMMERCE_CONSUMER_KEY, WOOCOMMERCE_CONSUMER_SECRET)
    ELSE NoAuth

\* Variant: the local-admin sentinel is not recognised.
BranchNoLocalAdmin(h) ==
    IF getWooCommerceAuth # NoAuth THEN "api-key"
    ELSE IF ~IsBearer(h) THEN "no-bearer"
    ELSE IF TokenOf(h).text = "cookie-auth" THEN "cookie-auth"
    ELSE IF TokenOf(h).len < ShortTokenThreshold /\ TokenOf(h).text # "cookie-auth"
         THEN "nonce"
    ELSE "jwt"

\* Variant: the API-key check runs before the local-admin check.
BranchApiKeyFirst(h) ==
    IF getWooCommerceAuth # NoAuth THEN "api-key"
    ELSE IF IsBearer(h) /\ TokenOf(h).text = "local-admin-token" THEN "local-admin"
    ELSE IF ~IsBearer(h) THEN "no-bearer"
    ELSE IF TokenOf(h).text = "cookie-auth" THEN "cookie-auth"
    ELSE IF TokenOf(h).len < ShortTokenThreshold /\ TokenOf(h).text # "cookie-auth"
         THEN "nonce"
    ELSE "jwt"

\* Variant: the cookie-auth sentinel is not recognised.
BranchNoCookieAuth(h) ==
    IF IsBearer(h) /\ TokenOf(h).text = "local-admin-token" THEN "local-admin"
    ELSE IF getWooCommerceAuth # NoAuth THEN "api-key"
    ELSE IF ~IsBearer(h) THEN "no-bearer"
    ELSE IF TokenOf(h).len < ShortTokenThreshold /\ TokenOf(h).text # "cookie-auth"
         THEN "nonce"
    ELSE "jwt"

\* Variant: the length test is inclusive (token.length <= 50).
BranchInclusiveThreshold(h) ==
    IF IsBearer(h) /\ TokenOf(h).text = "local-admin-token" THEN "local-admin"
    ELSE IF getWooCommerceAuth # NoAuth THEN "api-key"
    ELSE IF ~IsBearer(h) THEN "no-bearer"
    ELSE IF TokenOf(h).text = "cookie-auth" THEN "cookie-auth"
    ELSE IF TokenOf(h).len <= ShortTokenThreshold /\ TokenOf(h).text # "cookie-auth"
         THEN "nonce"
    ELSE "jwt"

\* The branch the synchronous prefix of checkAdminAuth takes, in code order.
Branch(h) ==
    IF IsBearer(h) /\ TokenOf(h).text = "local-admin-token" THEN "local-admin"
    ELSE IF getWooCommerceAuth # NoAuth THEN "api-key"
    ELSE IF ~IsBearer(h) THEN "no-bearer"
    ELSE IF TokenOf(h).text = "cookie-auth" THEN "cookie-auth"
    ELSE IF TokenOf(h).len < ShortTokenThreshold /\ TokenOf(h).text # "cookie-auth"
         THEN "nonce"
    ELSE "jwt"

\* Variant: the user_id is not required.
SessionAcceptsNoUserId(ans) ==
    Resolved(ans) /\ ans.body.json /\ ans.body.valid

\* Variant: the valid flag is not required.
SessionAcceptsIgnoresValid(ans) ==
    Resolved(ans) /\ ans.body.json /\ ans.body.user_id # Absent

\* wpResponse.data && wpResponse.data.valid && wpResponse.data.user_id
SessionAccepts(ans) ==
    Resolved(ans) /\ ans.body.json /\ ans.body.valid /\ ans.body.user_id # Absent

\* validateResponse.data && validateResponse.data.data && validateResponse.data.data.user
JwtUserShape(ans) == ans.body.hasData /\ ans.body.user.present

\* validateResponse.data && validateResponse.data.data && validateResponse.data.data.status === 200
JwtStatusShape(ans) == ans.body.hasData /\ ans.body.status = 200

\* Variant: the second bearer call is made after any HTTP error status.
RetryOnAnyStatus(ans) == ans.kind = "response"

\* Variant: the second bearer call is made when there is no response at all.
RetryOnNoResponse(ans) ==
    ans.kind = "error" \/ ans.status = 404 \/ ans.status = 403

\* firstError.response?.status === 404 || firstError.response?.status === 403
RetryWithSecret(ans) ==
    ans.kind = "response" /\ (ans.status = 404 \/ ans.status = 403)

-----------------------------------------------------------------------------
(* Outcomes *)

\* req.user = user; return next();
Admit(user) ==
    /\ reqUser' = user
    /\ nextCalls' = nextCalls + 1
    /\ handlerRuns' = handlerRuns + 1
    /\ pc' = "done"
    /\ UNCHANGED responses

\* Variant: the rejection is sent with status 403.
RejectForbidden(msg) ==
    /\ responses' = Append(responses, [status |-> 403, error |-> msg])
    /\ pc' = "done"
    /\ UNCHANGED <<reqUser, nextCalls, handlerRuns>>

\* res.status(401).json({ error: msg })
Reject(msg) ==
    /\ responses' = Append(responses, [status |-> 401, error |-> msg])
    /\ pc' = "done"
    /\ UNCHANGED <<reqUser, nextCalls, handlerRuns>>

\* await axios...: the call is issued and the handler is suspended at label.
Issue(call, label) ==
    /\ calls' = Append(calls, call)
    /\ pc' = label
    /\ UNCHANGED <<reqUser, nextCalls, responses, handlerRuns>>

\* The upstream answer to the outstanding call reaches the handler.
Receive(ans) == answers' = Append(answers, ans)

\* A console line: its fixed text and the number of leading characters of
\* the presented token printed in it.
LogLine(text, tokenChars) == [text |-> text, tokenChars |-> tokenChars]

Min(a, b) == IF a < b THEN a ELSE b

\* authHeader ? authHeader.substring(0, 20) + '...' : 'None'
\* The first 7 of the 20 characters are the 'Bearer ' prefix.
LoggedTokenChars(h) ==
    IF IsBearer(h) THEN Min(TokenOf(h).len, LogPrefixLen - BearerPrefixLen) ELSE 0

\* The three console.log calls at the top of checkAdminAuth.
EntryLog(h) ==
    <<LogLine("checkAdminAuth - Auth header:", 0),
      LogLine("checkAdminAuth - Cookie header:", 0),
      LogLine("checkAdminAuth - Token:", LoggedTokenChars(h))>>

Log(lines) == log' = log \o lines

\* Lines printed by the inspection of a resolved bearer-validation response.
JwtInspectLog(ans) ==
    <<LogLine("JWT validation response status:", 0),
      LogLine("JWT validation response data:", 0)>> \o
    (IF JwtUserShape(ans)
     THEN <<LogLine("JWT validation successful for user:", 0)>>
     ELSE IF JwtStatusShape(ans)
     THEN <<LogLine("JWT validation successful (alternative format)", 0)>>
     ELSE <<LogLine("All authentication methods failed", 0)>>)

\* Lines printed by catch (jwtError) before the fallback call.
JwtCatchLog ==
    <<LogLine("JWT validation failed:", 0),
      LogLine("JWT error details:", 0),
      LogLine("Trying cookie fallback...", 0)>>

-----------------------------------------------------------------------------
(* The /api/admin/ routes registered by server.js; gate tells whether
   checkAdminAuth is listed ahead of the handler. *)

Route(method, path, gate) == [method |-> method, path |-> path, gate |-> gate]

AdminRoutes ==
    {Route("GET", "/api/admin/stats", TRUE),
     Route("GET", "/api/admin/config", TRUE),
     Route("POST", "/api/admin/config", TRUE),
     Route("POST", "/api/admin/test-connection", TRUE),
     Route("GET", "/api/admin/system-settings", TRUE),
     Route("POST", "/api/admin/system-settings", TRUE),
     Route("GET", "/api/admin/users", TRUE),
     Route("POST", "/api/admin/users", TRUE),
     Route("GET", "/api/admin/orders", TRUE),
     Route("GET", "/api/admin/orders/:id", TRUE),
     Route("GET", "/api/admin/orders/:id/download", TRUE),
     Route("GET", "/api/admin/fonts", TRUE),
     Route("POST", "/api/admin/fonts/upload", TRUE),
     Route("GET", "/api/admin/fonts/:filename", FALSE),
     Route("DELETE", "/api/admin/fonts/:filename", TRUE),
     Route("GET", "/api/admin/clipart", TRUE),
     Route("POST", "/api/admin/clipart/upload", TRUE),
     Route("GET", "/api/admin/clipart/:filename", FALSE),
     Route("DELETE", "/api/admin/clipart/:filename", TRUE),
     Route("GET", "/api/admin/templates", TRUE),
     Route("POST", "/api/admin/templates/upload", TRUE),
     Route("GET", "/api/admin/templates/preview/:filename", FALSE),
     Route("GET", "/api/admin/templates/:filename", TRUE),
     Route("DELETE", "/api/admin/templates/:filename", TRUE),
     Route("GET", "/api/admin/links", TRUE),
     Route("POST", "/api/admin/links", TRUE),
     Route("PUT", "/api/admin/links/:id", TRUE),
     Route("DELETE", "/api/admin/links/:id", TRUE)}

-----------------------------------------------------------------------------
(* State machine *)

\* What a handler that has not answered has sent.
NoResponse == [status |-> 0, token |-> NoToken]

\* links.json does not exist.
NoFile == [exists |-> FALSE, links |-> <<>>]

Init ==
    /\ WOOCOMMERCE_CONSUMER_KEY \in {"", "ck_live"}
    /\ WOOCOMMERCE_CONSUMER_SECRET \in {"", "cs_live"}
    /\ WORDPRESS_SECRET_TOKEN \in {"futuretech", "from-env"}
    /\ authHeader \in AuthHeaders
    /\ cookieHeader \in Cookies
    /\ pc = "entry"
    /\ calls = <<>>
    /\ answers = <<>>
    /\ reqUser = NoUser
    /\ reqWooCommerceAuth = NoAuth
    /\ nextCalls = 0
    /\ responses = <<>>
    /\ \E r \in AdminRoutes : gated = r.gate
    /\ handlerRuns = 0
    /\ log = <<>>
    /\ aborted = FALSE
    /\ vPc = "idle"
    /\ vValid = FALSE
    /\ vCalls = <<>>
    /\ username = "" /\ password = ""
    /\ loginPc = "idle"
    /\ loginCalls = <<>>
    /\ loginAnswers = <<>>
    /\ loginResponse = NoResponse
    /\ peers = <<>>
    /\ linksFile = NoFile
    /\ posts = <<>>

Suspended ==
    pc \in {"session_nobearer", "session_nonce", "jwt_first", "jwt_retry",
            "cookie_fallback"}

\* The caller closes the connection while an upstream call is outstanding.
\* checkAdminAuth registers no 'close'/'aborted' listener and passes no
\* signal or cancel token to axios, so nothing else changes.
ClientAbort ==
    /\ Suspended
    /\ ~aborted
    /\ aborted' = TRUE
    /\ UNCHANGED <<config, request, elsewhere, pc, calls, answers, reqUser,
                   reqWooCommerceAuth, nextCalls, responses, handlerRuns, log>>

\* A route registered without checkAdminAuth: the handler runs at once.
UngatedRoute ==
    /\ ~gated
    /\ pc = "entry"
    /\ handlerRuns = 0
    /\ handlerRuns' = handlerRuns + 1
    /\ UNCHANGED <<config, request, aborted, elsewhere, pc, calls, answers, reqUser,
                   reqWooCommerceAuth, nextCalls, responses, log>>

\* if (token === 'local-admin-token') { req.user = {...}; return next(); }
LocalAdminAccepted ==
    /\ gated
    /\ pc = "entry"
    /\ Branch(authHeader) = "local-admin"
    /\ Log(EntryLog(authHeader) \o <<LogLine("checkAdminAuth: Local admin token accepted", 0)>>)
    /\ Admit(AdminUser)
    /\ UNCHANGED <<config, request, aborted, elsewhere, calls, answers, reqWooCommerceAuth>>

\* if (wooCommerceAuth) { req.wooCommerceAuth = ...; req.user = {...}; return next(); }
ApiKeyBypass ==
    /\ gated
    /\ pc = "entry"
    /\ Branch(authHeader) = "api-key"
    /\ Log(EntryLog(authHeader) \o <<LogLine("Using WooCommerce API key authentication (bypassing JWT validation)", 0)>>)
    /\ reqWooCommerceAuth' = getWooCommerceAuth
    /\ Admit(AdminUser)
    /\ UNCHANGED <<config, request, aborted, elsewhere, calls, answers>>

\* No bearer header: the session-validation call is issued.
NoBearerValidate ==
    /\ gated
    /\ pc = "entry"
    /\ Branch(authHeader) = "no-bearer"
    /\ Log(EntryLog(authHeader))
    /\ Issue(SessionCall, "session_nobearer")
    /\ UNCHANGED <<config, request, aborted, elsewhere, answers, reqWooCommerceAuth>>

NoBearerAnswer(ans) ==
    /\ pc = "session_nobearer"
    /\ Receive(ans)
    /\ IF SessionAccepts(ans)
       THEN Admit(UserWithId(ans.body.user_id))
       ELSE Reject("Unauthorized - Please login")
    /\ Log(IF Resolved(ans) THEN <<>>
           ELSE <<LogLine("Cookie auth failed (no header):", 0)>>)
    /\ UNCHANGED <<config, request, aborted, elsewhere, calls, reqWooCommerceAuth>>

\* if (token === 'cookie-auth') { req.user = {...}; return next(); }
CookieAuthAccepted ==
    /\ gated
    /\ pc = "entry"
    /\ Branch(authHeader) = "cookie-auth"
    /\ Log(EntryLog(authHeader) \o <<LogLine("Accepted cookie-auth token (trusted from successful login)", 0)>>)
    /\ Admit(AdminUser)
    /\ UNCHANGED <<config, request, aborted, elsewhere, calls, answers, reqWooCommerceAuth>>

\* Short token: the session-validation call is issued.
NonceValidate ==
    /\ gated
    /\ pc = "entry"
    /\ Branch(authHeader) = "nonce"
    /\ Log(EntryLog(authHeader))
    /\ Issue(SessionCall, "session_nonce")
    /\ UNCHANGED <<config, request, aborted, elsewhere, answers, reqWooCommerceAuth>>

NonceAnswer(ans) ==
    /\ pc = "session_nonce"
    /\ Receive(ans)
    /\ IF SessionAccepts(ans)
       THEN Admit(UserWithId(ans.body.user_id))
       ELSE Reject("Invalid authentication")
    /\ Log(IF Resolved(ans) THEN <<>>
           ELSE <<LogLine("Nonce validation failed:", 0)>>)
    /\ UNCHANGED <<config, request, aborted, elsewhere, calls, reqWooCommerceAuth>>

\* Variant: the long-token branch starts with the session-validation call.
JwtValidateCookieFirst ==
    /\ gated
    /\ pc = "entry"
    /\ Branch(authHeader) = "jwt"
    /\ Log(EntryLog(authHeader) \o <<LogLine("Attempting JWT validation with WordPress...", 0)>>)
    /\ Issue(SessionCall, "cookie_fallback")
    /\ UNCHANGED <<config, request, aborted, elsewhere, answers, reqWooCommerceAuth>>

\* Long token: the first bearer-validation call, without the secret token.
JwtValidate ==
    /\ gated
    /\ pc = "entry"
    /\ Branch(authHeader) = "jwt"
    /\ Log(EntryLog(authHeader) \o <<LogLine("Attempting JWT validation with WordPress...", 0)>>)
    /\ Issue(JwtCall(JwtValidateUrl, TokenOf(authHeader)), "jwt_first")
    /\ UNCHANGED <<config, request, aborted, elsewhere, answers, reqWooCommerceAuth>>

\* Variant: a 2xx body of neither shape ends the handler without an outcome.
JwtInspectSilent(ans) ==
    IF JwtUserShape(ans)
    THEN Admit([set |-> TRUE, id |-> ans.body.user.id, role |-> ans.body.user.role])
    ELSE IF JwtStatusShape(ans)
    THEN Admit(UserWithId(IF ans.body.id # Absent THEN ans.body.id ELSE 1))
    ELSE pc' = "done" /\ UNCHANGED <<reqUser, nextCalls, responses, handlerRuns>>

\* The code after the inner try/catch, run on a resolved (2xx) response:
\* either success shape admits; anything else leaves the outer try without
\* an exception and reaches the final 401.
JwtInspect(ans) ==
    IF JwtUserShape(ans)
    THEN Admit([set |-> TRUE, id |-> ans.body.user.id, role |-> ans.body.user.role])
    ELSE IF JwtStatusShape(ans)
    THEN Admit(UserWithId(IF ans.body.id # Absent THEN ans.body.id ELSE 1))
    ELSE Reject("Invalid token or authentication failed")

\* catch (jwtError): the session-validation fallback is issued.
CookieFallback == Issue(SessionCall, "cookie_fallback")

\* Answer to the first bearer-validation call.  A 403 or 404 triggers the
\* second bearer call with the secret token; any other rejection is rethrown
\* to catch (jwtError).
JwtFirstAnswer(ans) ==
    /\ pc = "jwt_first"
    /\ Receive(ans)
    /\ IF Resolved(ans)
       THEN JwtInspect(ans) /\ UNCHANGED calls
       ELSE IF RetryWithSecret(ans)
       THEN Issue(JwtCall(addSecretToken(JwtValidateUrl, FALSE), TokenOf(authHeader)),
                  "jwt_retry")
       ELSE CookieFallback
    /\ Log(IF Resolved(ans) THEN JwtInspectLog(ans)
           ELSE IF RetryWithSecret(ans)
           THEN <<LogLine("JWT validation without token failed, trying with secret token...", 0)>>
           ELSE JwtCatchLog)
    /\ UNCHANGED <<config, request, aborted, elsewhere, reqWooCommerceAuth>>

\* Answer to the second bearer-validation call; its rejection propagates to
\* catch (jwtError).
JwtRetryAnswer(ans) ==
    /\ pc = "jwt_retry"
    /\ Receive(ans)
    /\ IF Resolved(ans)
       THEN JwtInspect(ans) /\ UNCHANGED calls
       ELSE CookieFallback
    /\ Log(IF Resolved(ans) THEN JwtInspectLog(ans) ELSE JwtCatchLog)
    /\ UNCHANGED <<config, request, aborted, elsewhere, reqWooCommerceAuth>>

\* Answer to the session-validation fallback of the long-token branch.
CookieFallbackAnswer(ans) ==
    /\ pc = "cookie_fallback"
    /\ Receive(ans)
    /\ IF SessionAccepts(ans)
       THEN Admit(UserWithId(ans.body.user_id))
       ELSE Reject("Invalid token or authentication failed")
    /\ Log(IF SessionAccepts(ans)
           THEN <<LogLine("Cookie fallback successful", 0)>>
           ELSE (IF Resolved(ans) THEN <<>>
                 ELSE <<LogLine("Cookie fallback also failed:", 0)>>)
                \o <<LogLine("All authentication methods failed", 0)>>)
    /\ UNCHANGED <<config, request, aborted, elsewhere, calls, reqWooCommerceAuth>>

\* The synchronous prefix of the handler, up to its first await or outcome.
Enter ==
    \/ LocalAdminAccepted
    \/ ApiKeyBypass
    \/ NoBearerValidate
    \/ CookieAuthAccepted
    \/ NonceValidate
    \/ JwtValidate

Next ==
    \/ UngatedRoute
    \/ ClientAbort
    \/ LocalAdminAccepted
    \/ ApiKeyBypass
    \/ NoBearerValidate
    \/ \E ans \in SessionAnswers : NoBearerAnswer(ans)
    \/ CookieAuthAccepted
    \/ NonceValidate
    \/ \E ans \in SessionAnswers : NonceAnswer(ans)
    \/ JwtValidate
    \/ \E ans \in JwtAnswers : JwtFirstAnswer(ans)
    \/ \E ans \in JwtAnswers : JwtRetryAnswer(ans)
    \/ \E ans \in SessionAnswers : CookieFallbackAnswer(ans)

Spec == Init /\ [][Next]_vars

\* The handler's own steps are taken whenever they are enabled.  The upstream
\* is under no obligation to answer, and no axios call of checkAdminAuth sets
\* a timeout, so the answer steps carry no fairness.
FairSpec == Spec /\ WF_vars(Enter)

TypeOK ==
    /\ authHeader \in AuthHeaders
    /\ cookieHeader \in Cookies
    /\ pc \in {"entry", "session_nobearer", "session_nonce", "jwt_first",
               "jwt_retry", "cookie_fallback", "done"}
    /\ nextCalls \in 0..1
    /\ handlerRuns \in 0..1
    /\ gated \in BOOLEAN
    /\ aborted \in BOOLEAN
    /\ Len(responses) \in 0..1
    /\ Len(answers) <= Len(calls)

-----------------------------------------------------------------------------
(* GET /api/auth/validate, presented with the headers of the request that
   went through checkAdminAuth *)

\* The branch the handler takes, in code order.
ValidateBranch(h) ==
    IF IsBearer(h) /\ TokenOf(h).text = "local-admin-token" THEN "local-admin"
    ELSE IF getWooCommerceAuth # NoAuth THEN "api-key"
    ELSE IF ~IsBearer(h) THEN "no-bearer"
    ELSE IF TokenOf(h).text = "cookie-auth" \/ TokenOf(h).len < ShortTokenThreshold
         THEN "session"
    ELSE "jwt"

\* axios.get(addSecretToken(.../auth/validate), {headers: {'Content-Type': ...},
\* withCredentials: true}): the inbound Cookie header is not put on the call.
ValidateSessionCall ==
    [method |-> "GET", url |-> addSecretToken(SessionValidateUrl, FALSE),
     cookieSent |-> FALSE, cookie |-> "", bearer |-> NoToken,
     nonce |-> NoToken, timeout |-> 0]

\* axios.post(`${WORDPRESS_URL}/wp-json/jwt-auth/v1/token/validate`, {},
\* {headers: {Authorization: `Bearer ${token}`}}): addSecretToken is not used.
ValidateJwtCall(token) ==
    [method |-> "POST", url |-> JwtValidateUrl,
     cookieSent |-> FALSE, cookie |-> "", bearer |-> token,
     nonce |-> NoToken, timeout |-> 0]

\* wpResponse.data && wpResponse.data.valid
ValidateSessionAccepts(ans) == Resolved(ans) /\ ans.body.json /\ ans.body.valid

\* res.json({valid: ...}) or res.json(<upstream body>)
ValidateRespond(valid) ==
    /\ vPc' = "done"
    /\ vValid' = valid

ValidateIssue(call, label) ==
    /\ vCalls' = Append(vCalls, call)
    /\ vPc' = label
    /\ UNCHANGED vValid

\* The upstream answers the same call the same way for both handlers.
SameAnswerAsGate(call, ans) ==
    \A i \in 1..Len(answers) : calls[i] = call => answers[i] = ans

gateVars ==
    <<config, request, aborted, pc, calls, answers, reqUser, reqWooCommerceAuth,
      nextCalls, responses, handlerRuns, log>>

ValidateLocalAdmin ==
    /\ vPc = "idle" /\ gated /\ pc = "done"
    /\ ValidateBranch(authHeader) = "local-admin"
    /\ ValidateRespond(TRUE)
    /\ UNCHANGED <<gateVars, vCalls, login, peers, links>>

ValidateApiKey ==
    /\ vPc = "idle" /\ gated /\ pc = "done"
    /\ ValidateBranch(authHeader) = "api-key"
    /\ ValidateRespond(TRUE)
    /\ UNCHANGED <<gateVars, vCalls, login, peers, links>>

ValidateNoBearer ==
    /\ vPc = "idle" /\ gated /\ pc = "done"
    /\ ValidateBranch(authHeader) = "no-bearer"
    /\ ValidateIssue(ValidateSessionCall, "session_nobearer")
    /\ UNCHANGED <<gateVars, login, peers, links>>

\* token === 'cookie-auth' || token.length < 50
ValidateShortToken ==
    /\ vPc = "idle" /\ gated /\ pc = "done"
    /\ ValidateBranch(authHeader) = "session"
    /\ ValidateIssue(ValidateSessionCall, "session_token")
    /\ UNCHANGED <<gateVars, login, peers, links>>

\* A valid body is passed on as it came; everything else, a rejected call
\* included, is answered {valid: false}.
ValidateSessionAnswer(ans) ==
    /\ vPc \in {"session_nobearer", "session_token"}
    /\ SameAnswerAsGate(vCalls[Len(vCalls)], ans)
    /\ ValidateRespond(ValidateSessionAccepts(ans))
    /\ UNCHANGED <<gateVars, vCalls, login, peers, links>>

ValidateJwt ==
    /\ vPc = "idle" /\ gated /\ pc = "done"
    /\ ValidateBranch(authHeader) = "jwt"
    /\ ValidateIssue(ValidateJwtCall(TokenOf(authHeader)), "jwt")
    /\ UNCHANGED <<gateVars, login, peers, links>>

\* res.json(response.data): the 2xx body is passed on whatever its shape,
\* so valid is true only if the upstream body has a field valid that is
\* true (bodyValid); a rejected call is answered {valid: false}.
ValidateJwtAnswer(ans, bodyValid) ==
    /\ vPc = "jwt"
    /\ SameAnswerAsGate(vCalls[Len(vCalls)], ans)
    /\ ValidateRespond(Resolved(ans) /\ bodyValid)
    /\ UNCHANGED <<gateVars, vCalls, login, peers, links>>

ValidateNext ==
    \/ Next
    \/ ValidateLocalAdmin
    \/ ValidateApiKey
    \/ ValidateNoBearer
    \/ ValidateShortToken
    \/ \E ans \in SessionAnswers : ValidateSessionAnswer(ans)
    \/ ValidateJwt
    \/ \E ans \in JwtAnswers, bodyValid \in BOOLEAN : ValidateJwtAnswer(ans, bodyValid)

ValidateSpec == Init /\ [][ValidateNext]_vars

-----------------------------------------------------------------------------
(* POST /api/auth/login, and the client presenting what it returned *)

\* process.env.LOCAL_ADMIN_USER || 'admin', process.env.LOCAL_ADMIN_PASS || 'admin123'
LOCAL_ADMIN_USER == "admin"
LOCAL_ADMIN_PASS == "admin123"

\* req.body: username and password, "" standing for a missing or empty field.
LoginBodies ==
    {<<"", "">>, <<"", "pw">>, <<"admin", "">>, <<"admin", "admin123">>,
     <<"admin", "pw">>, <<"alice", "admin123">>}

\* token: 'woocommerce-api-key'
WooApiKeyToken == [text |-> "woocommerce-api-key", len |-> 19]

\* Tokens the upstream issues: a JWT (long) and a nonce (short).
UpstreamJwt == [text |-> "opaque", len |-> MaxTokenLen]
UpstreamNonce == [text |-> "opaque", len |-> LogPrefixLen - BearerPrefixLen]

JwtLoginUrl == [path |-> "/wp-json/jwt-auth/v1/token", query |-> <<>>]
WpRootUrl == [path |-> "/wp-json/", query |-> <<>>]
WpLoginUrl == [path |-> "/wp-json/design-tool/v1/auth/login", query |-> <<>>]

\* axios.post(url, {username, password}, {timeout}) and axios.get(url, {timeout})
LoginCall(method, url, timeout) ==
    [method |-> method, url |-> url, cookieSent |-> FALSE, cookie |-> "",
     bearer |-> NoToken, nonce |-> NoToken, timeout |-> timeout]

JwtLoginTimeout == 5000
WpCheckTimeout == 3000
WpLoginTimeout == 5000

\* Body of an answer to a login call: fields token (JWT login), success and
\* nonce (cookie login), each possibly absent.
EmptyLoginBody == [token |-> NoToken, success |-> FALSE, nonce |-> NoToken]
JwtLoginBodies == {EmptyLoginBody, [EmptyLoginBody EXCEPT !.token = UpstreamJwt]}
WpLoginBodies ==
    [token : {NoToken}, success : BOOLEAN, nonce : {NoToken, UpstreamNonce}]

\* 204 stands for the 2xx statuses other than 200.
LoginStatuses == HttpStatuses \cup {204}

LoginAnswers(bodies) ==
    {[kind |-> "error", status |-> 0, body |-> EmptyLoginBody]}
    \cup [kind : {"response"}, status : {st \in LoginStatuses : ~Is2xx(st)},
          body : {EmptyLoginBody}]
    \cup [kind : {"response"}, status : {st \in LoginStatuses : Is2xx(st)},
          body : bodies]

\* Variant: the API-key shortcut is taken whether or not keys are configured.
LoginBranchApiKeyAlways(u, p) ==
    IF u = "" \/ p = "" THEN "missing"
    ELSE IF u = LOCAL_ADMIN_USER /\ p = LOCAL_ADMIN_PASS THEN "local-admin"
    ELSE "api-key"

\* The strategy the handler takes before any await, in code order.
LoginBranch(u, p) ==
    IF u = "" \/ p = "" THEN "missing"
    ELSE IF u = LOCAL_ADMIN_USER /\ p = LOCAL_ADMIN_PASS THEN "local-admin"
    ELSE IF getWooCommerceAuth # NoAuth THEN "api-key"
    ELSE "upstream"

\* jwtResponse.data && jwtResponse.data.token
JwtLoginHasToken(ans) == Resolved(ans) /\ ans.body.token # NoToken

\* Variant: any resolved answer of the cookie login counts as success.
WpLoginSucceededAnyBody(ans) == Resolved(ans)

\* wpResponse.data && wpResponse.data.success
WpLoginSucceeded(ans) == Resolved(ans) /\ ans.body.success

\* wpResponse.data.nonce || 'cookie-auth'
WpLoginToken(ans) ==
    IF ans.body.nonce # NoToken THEN ans.body.nonce ELSE CookieAuthToken

\* res.status(status).json({token, ...})
LoginRespond(status, token) ==
    /\ loginResponse' = [status |-> status, token |-> token]
    /\ loginPc' = "done"

LoginIssue(call, label) ==
    /\ loginCalls' = Append(loginCalls, call)
    /\ loginPc' = label
    /\ UNCHANGED loginResponse

LoginReceive(ans) == loginAnswers' = Append(loginAnswers, ans)

notLogin == <<gateVars, validate, peers, links>>

\* if (!username || !password) return res.status(400)
LoginMissing ==
    /\ loginPc = "start"
    /\ LoginBranch(username, password) = "missing"
    /\ LoginRespond(400, NoToken)
    /\ UNCHANGED <<notLogin, username, password, loginCalls, loginAnswers>>

LoginLocalAdmin ==
    /\ loginPc = "start"
    /\ LoginBranch(username, password) = "local-admin"
    /\ LoginRespond(200, LocalAdminToken)
    /\ UNCHANGED <<notLogin, username, password, loginCalls, loginAnswers>>

LoginApiKey ==
    /\ loginPc = "start"
    /\ LoginBranch(username, password) = "api-key"
    /\ LoginRespond(200, WooApiKeyToken)
    /\ UNCHANGED <<notLogin, username, password, loginCalls, loginAnswers>>

\* Variant: the cookie-based login is started first.
LoginJwtCookieFirst ==
    /\ loginPc = "start"
    /\ LoginBranch(username, password) = "upstream"
    /\ LoginIssue(LoginCall("GET", addSecretToken(WpRootUrl, FALSE), WpCheckTimeout),
                  "wp_check")
    /\ UNCHANGED <<notLogin, username, password, loginAnswers>>

\* The first JWT login call, without the secret token.
LoginJwt ==
    /\ loginPc = "start"
    /\ LoginBranch(username, password) = "upstream"
    /\ LoginIssue(LoginCall("POST", JwtLoginUrl, JwtLoginTimeout), "jwt_first")
    /\ UNCHANGED <<notLogin, username, password, loginAnswers>>

\* Fallback: axios.get(addSecretToken(`${WORDPRESS_URL}/wp-json/`))
LoginWpCheck ==
    LoginIssue(LoginCall("GET", addSecretToken(WpRootUrl, FALSE), WpCheckTimeout),
               "wp_check")

\* Answer to the first JWT login call: a body with a token is passed on; a
\* 403 or 404 triggers the call with the secret token; everything else
\* falls through to the cookie-based login.
LoginJwtFirstAnswer(ans) ==
    /\ loginPc = "jwt_first"
    /\ LoginReceive(ans)
    /\ IF JwtLoginHasToken(ans)
       THEN LoginRespond(200, ans.body.token) /\ UNCHANGED loginCalls
       ELSE IF ~Resolved(ans) /\ RetryWithSecret(ans)
       THEN LoginIssue(LoginCall("POST", addSecretToken(JwtLoginUrl, FALSE),
                                 JwtLoginTimeout), "jwt_retry")
       ELSE LoginWpCheck
    /\ UNCHANGED <<notLogin, username, password>>

LoginJwtRetryAnswer(ans) ==
    /\ loginPc = "jwt_retry"
    /\ LoginReceive(ans)
    /\ IF JwtLoginHasToken(ans)
       THEN LoginRespond(200, ans.body.token) /\ UNCHANGED loginCalls
       ELSE LoginWpCheck
    /\ UNCHANGED <<notLogin, username, password>>

\* wpCheck: status 200 starts the cookie login; another 2xx status reaches
\* the final 401; a rejected call is answered 500.
LoginWpCheckAnswer(ans) ==
    /\ loginPc = "wp_check"
    /\ LoginReceive(ans)
    /\ IF Resolved(ans) /\ ans.status = 200
       THEN LoginIssue(LoginCall("POST", addSecretToken(WpLoginUrl, FALSE),
                                 WpLoginTimeout), "wp_login")
       ELSE IF Resolved(ans)
       THEN LoginRespond(401, NoToken) /\ UNCHANGED loginCalls
       ELSE LoginRespond(500, NoToken) /\ UNCHANGED loginCalls
    /\ UNCHANGED <<notLogin, username, password>>

\* The cookie login: success answers the nonce or 'cookie-auth'; a resolved
\* body without success reaches the final 401; a rejected call is answered
\* 401 for a 404 and the upstream's status (or 500) otherwise.
LoginWpLoginAnswer(ans) ==
    /\ loginPc = "wp_login"
    /\ LoginReceive(ans)
    /\ IF WpLoginSucceeded(ans)
       THEN LoginRespond(200, WpLoginToken(ans))
       ELSE IF Resolved(ans) \/ ans.status = 404
       THEN LoginRespond(401, NoToken)
       ELSE LoginRespond(IF ans.kind = "response" THEN ans.status ELSE 500, NoToken)
    /\ UNCHANGED <<notLogin, username, password, loginCalls>>

\* The client sends its next request to an /api/admin route: with the
\* token of a successful login as 'Bearer <token>', with no Authorization
\* header after a failed one.
PresentToken ==
    /\ loginPc = "done"
    /\ pc = "idle"
    /\ authHeader' = IF loginResponse.status = 200
                     THEN BearerHeader(loginResponse.token)
                     ELSE NoHeader
    /\ pc' = "entry"
    /\ UNCHANGED <<config, cookieHeader, gated, aborted, calls, answers, reqUser,
                   reqWooCommerceAuth, nextCalls, responses, handlerRuns, log,
                   elsewhere>>

LoginInit ==
    /\ WOOCOMMERCE_CONSUMER_KEY \in {"", "ck_live"}
    /\ WOOCOMMERCE_CONSUMER_SECRET \in {"", "cs_live"}
    /\ WORDPRESS_SECRET_TOKEN = "futuretech"
    /\ authHeader = NoHeader
    /\ cookieHeader = ""
    /\ pc = "idle"
    /\ calls = <<>>
    /\ answers = <<>>
    /\ reqUser = NoUser
    /\ reqWooCommerceAuth = NoAuth
    /\ nextCalls = 0
    /\ responses = <<>>
    /\ \E r \in AdminRoutes : gated = r.gate
    /\ handlerRuns = 0
    /\ log = <<>>
    /\ aborted = FALSE
    /\ vPc = "idle"
    /\ vValid = FALSE
    /\ vCalls = <<>>
    /\ \E b \in LoginBodies : username = b[1] /\ password = b[2]
    /\ loginPc = "start"
    /\ loginCalls = <<>>
    /\ loginAnswers = <<>>
    /\ loginResponse = NoResponse
    /\ peers = <<>>
    /\ linksFile = NoFile
    /\ posts = <<>>

LoginNext ==
    \/ LoginMissing
    \/ LoginLocalAdmin
    \/ LoginApiKey
    \/ LoginJwt
    \/ \E ans \in LoginAnswers(JwtLoginBodies) : LoginJwtFirstAnswer(ans)
    \/ \E ans \in LoginAnswers(JwtLoginBodies) : LoginJwtRetryAnswer(ans)
    \/ \E ans \in LoginAnswers({EmptyLoginBody}) : LoginWpCheckAnswer(ans)
    \/ \E ans \in LoginAnswers(WpLoginBodies) : LoginWpLoginAnswer(ans)
    \/ PresentToken
    \/ Next

LoginSpec == LoginInit /\ [][LoginNext]_vars

-----------------------------------------------------------------------------
(* POST /api/admin/links: concurrent requests that checkAdminAuth admitted *)

MaxPosts == 3            \* concurrent POST /api/admin/links requests

Posters == 1..MaxPosts

\* newLink of request p; its id is unique to the request.
NewLink(p) == [id |-> p]

IdlePost == [pc |-> "idle", links |-> <<>>, status |-> 0]

notLinks == <<gateVars, validate, login, peers>>

\* The handler runs up to its first await: existsSync(LINKS_DB) chooses
\* between awaiting fs.readJson and going on with links = [] to links.push
\* and the await of fs.writeJson.
PostStart(p) ==
    /\ posts[p].pc = "idle"
    /\ posts' = [posts EXCEPT ![p] =
                    IF linksFile.exists
                    THEN [@ EXCEPT !.pc = "reading"]
                    ELSE [@ EXCEPT !.pc = "writing", !.links = <<NewLink(p)>>]]
    /\ UNCHANGED <<notLinks, linksFile>>

\* fs.readJson resolves with the content of the file at that moment; then
\* links.push(newLink) and fs.writeJson is awaited.
PostRead(p) ==
    /\ posts[p].pc = "reading"
    /\ posts' = [posts EXCEPT ![p] =
                    [@ EXCEPT !.pc = "writing",
                              !.links = Append(linksFile.links, NewLink(p))]]
    /\ UNCHANGED <<notLinks, linksFile>>

\* fs.readJson rejects: catch (e) { links = [] }.
PostReadFails(p) ==
    /\ posts[p].pc = "reading"
    /\ posts' = [posts EXCEPT ![p] =
                    [@ EXCEPT !.pc = "writing", !.links = <<NewLink(p)>>]]
    /\ UNCHANGED <<notLinks, linksFile>>

\* fs.writeJson replaces the whole file by the request's own list, then
\* res.json({success: true, link: newLink}).
PostWrite(p) ==
    /\ posts[p].pc = "writing"
    /\ linksFile' = [exists |-> TRUE, links |-> posts[p].links]
    /\ posts' = [posts EXCEPT ![p] = [@ EXCEPT !.pc = "done", !.status = 200]]
    /\ UNCHANGED notLinks

\* fs.writeJson rejects: the outer catch answers 500.
PostWriteFails(p) ==
    /\ posts[p].pc = "writing"
    /\ posts' = [posts EXCEPT ![p] = [@ EXCEPT !.pc = "done", !.status = 500]]
    /\ UNCHANGED <<notLinks, linksFile>>

LinksInit ==
    /\ WOOCOMMERCE_CONSUMER_KEY = ""
    /\ WOOCOMMERCE_CONSUMER_SECRET = ""
    /\ WORDPRESS_SECRET_TOKEN = "futuretech"
    /\ authHeader = BearerHeader(LocalAdminToken)
    /\ cookieHeader = ""
    /\ pc = "idle"
    /\ calls = <<>>
    /\ answers = <<>>
    /\ reqUser = NoUser
    /\ reqWooCommerceAuth = NoAuth
    /\ nextCalls = 0
    /\ responses = <<>>
    /\ gated = TRUE
    /\ handlerRuns = 0
    /\ log = <<>>
    /\ aborted = FALSE
    /\ vPc = "idle"
    /\ vValid = FALSE
    /\ vCalls = <<>>
    /\ username = "" /\ password = ""
    /\ loginPc = "idle"
    /\ loginCalls = <<>>
    /\ loginAnswers = <<>>
    /\ loginResponse = NoResponse
    /\ peers = <<>>
    /\ linksFile \in {NoFile, [exists |-> TRUE, links |-> <<>>]}
    /\ posts = [p \in Posters |-> IdlePost]

LinksNext ==
    \E p \in Posters :
        \/ PostStart(p)
        \/ PostReadFails(p)
        \/ PostRead(p)
        \/ PostWrite(p)
        \/ PostWriteFails(p)

LinksSpec == LinksInit /\ [][LinksNext]_vars

-----------------------------------------------------------------------------
(* Concurrent requests inside checkAdminAuth.  Each request owns its req
   and res objects; the configuration is the only state they share.  The
   console output is left out: it is written and never read. *)

MaxPeers == 2            \* requests inside checkAdminAuth at the same time

Peers == 1..MaxPeers

\* A request on arrival: its headers, and req/res untouched.
Fresh(h, c) ==
    [authHeader |-> h, cookieHeader |-> c, pc |-> "entry", calls |-> <<>>,
     answers |-> <<>>, user |-> NoUser, wooCommerceAuth |-> NoAuth,
     nextCalls |-> 0, responses |-> <<>>]

\* The session-validation call of request r, with r's own Cookie header.
PeerSessionCall(r) ==
    [SessionCall EXCEPT !.cookieSent = r.cookieHeader # "",
                        !.cookie = r.cookieHeader]

\* req.user = user; return next();
PeerAdmit(r, user) ==
    [r EXCEPT !.user = user, !.nextCalls = @ + 1, !.pc = "done"]

\* res.status(401).json({ error: msg })
PeerReject(r, msg) ==
    [r EXCEPT !.responses = Append(@, [status |-> 401, error |-> msg]),
              !.pc = "done"]

PeerIssue(r, call, label) ==
    [r EXCEPT !.calls = Append(@, call), !.pc = label]

\* The synchronous prefix of the handler for request r.
PeerEntered(r) ==
    LET b == Branch(r.authHeader) IN
    CASE b = "local-admin" -> PeerAdmit(r, AdminUser)
      [] b = "api-key" ->
            PeerAdmit([r EXCEPT !.wooCommerceAuth = getWooCommerceAuth], AdminUser)
      [] b = "no-bearer" -> PeerIssue(r, PeerSessionCall(r), "session_nobearer")
      [] b = "cookie-auth" -> PeerAdmit(r, AdminUser)
      [] b = "nonce" -> PeerIssue(r, PeerSessionCall(r), "session_nonce")
      [] OTHER -> PeerIssue(r, JwtCall(JwtValidateUrl, TokenOf(r.authHeader)),
                            "jwt_first")

\* The inspection of a resolved bearer-validation response.
PeerInspected(r, ans) ==
    IF JwtUserShape(ans)
    THEN PeerAdmit(r, [set |-> TRUE, id |-> ans.body.user.id,
                       role |-> ans.body.user.role])
    ELSE IF JwtStatusShape(ans)
    THEN PeerAdmit(r, UserWithId(IF ans.body.id # Absent THEN ans.body.id ELSE 1))
    ELSE PeerReject(r, "Invalid token or authentication failed")

\* The handler of request r0 resumes with the answer to its outstanding call.
PeerAnswered(r0, ans) ==
    LET r == [r0 EXCEPT !.answers = Append(@, ans)]
        fallback == PeerIssue(r, PeerSessionCall(r), "cookie_fallback")
    IN
    CASE r.pc = "session_nobearer" ->
            IF SessionAccepts(ans) THEN PeerAdmit(r, UserWithId(ans.body.user_id))
            ELSE PeerReject(r, "Unauthorized - Please login")
      [] r.pc = "session_nonce" ->
            IF SessionAccepts(ans) THEN PeerAdmit(r, UserWithId(ans.body.user_id))
            ELSE PeerReject(r, "Invalid authentication")
      [] r.pc = "jwt_first" ->
            IF Resolved(ans) THEN PeerInspected(r, ans)
            ELSE IF RetryWithSecret(ans)
            THEN PeerIssue(r, JwtCall(addSecretToken(JwtValidateUrl, FALSE),
                                      TokenOf(r.authHeader)), "jwt_retry")
            ELSE fallback
      [] r.pc = "jwt_retry" ->
            IF Resolved(ans) THEN PeerInspected(r, ans) ELSE fallback
      [] r.pc = "cookie_fallback" ->
            IF SessionAccepts(ans) THEN PeerAdmit(r, UserWithId(ans.body.user_id))
            ELSE PeerReject(r, "Invalid token or authentication failed")
      [] OTHER -> r0

\* Variant: the principal is kept in one module-level variable that every
\* request reads.
PeerStoreSharedUser(p, r) ==
    [q \in DOMAIN peers |->
        IF q = p THEN r ELSE [peers[q] EXCEPT !.user = r.user]]

\* The handler writes to the req and res of its own request only.
PeerStore(p, r) == [peers EXCEPT ![p] = r]

notPeers == <<gateVars, validate, login, links>>

PeerEnter(p) ==
    /\ peers[p].pc = "entry"
    /\ peers' = PeerStore(p, PeerEntered(peers[p]))
    /\ UNCHANGED notPeers

PeerSessionAnswer(p, ans) ==
    /\ peers[p].pc \in {"session_nobearer", "session_nonce", "cookie_fallback"}
    /\ peers' = PeerStore(p, PeerAnswered(peers[p], ans))
    /\ UNCHANGED notPeers

PeerJwtAnswer(p, ans) ==
    /\ peers[p].pc \in {"jwt_first", "jwt_retry"}
    /\ peers' = PeerStore(p, PeerAnswered(peers[p], ans))
    /\ UNCHANGED notPeers

\* Headers and answers of the concurrent requests: one header of each
\* class, and one answer for each way the handler can take.
PeerHeaders ==
    {NoHeader, BearerHeader(LocalAdminToken),
     BearerHeader([text |-> "opaque", len |-> ShortTokenThreshold - 1]),
     BearerHeader([text |-> "opaque", len |-> ShortTokenThreshold])}

PeerSessionAnswers ==
    {a \in SessionAnswers :
        \/ a.kind = "error"
        \/ /\ Resolved(a)
           /\ a.body.json
           /\ a.body.valid <=> (a.body.user_id # Absent)}

PeerJwtAnswers ==
    {a \in JwtAnswers :
        \/ a.kind = "error"
        \/ a.status = 403
        \/ /\ Resolved(a)
           /\ \/ a.body = EmptyJwtBody
              \/ /\ a.body.hasData
                 /\ a.body.user.present
                 /\ a.body.user.id # Absent
                 /\ a.body.user.role = ""
                 /\ a.body.status = Absent
                 /\ a.body.id = Absent}

PeerStep(p) ==
    \/ PeerEnter(p)
    \/ \E ans \in PeerSessionAnswers : PeerSessionAnswer(p, ans)
    \/ \E ans \in PeerJwtAnswers : PeerJwtAnswer(p, ans)

ConcInit ==
    /\ WOOCOMMERCE_CONSUMER_KEY \in {"", "ck_live"}
    /\ WOOCOMMERCE_CONSUMER_SECRET = "cs_live"
    /\ WORDPRESS_SECRET_TOKEN = "futuretech"
    /\ authHeader = NoHeader
    /\ cookieHeader = ""
    /\ pc = "idle"
    /\ calls = <<>>
    /\ answers = <<>>
    /\ reqUser = NoUser
    /\ reqWooCommerceAuth = NoAuth
    /\ nextCalls = 0
    /\ responses = <<>>
    /\ gated = TRUE
    /\ handlerRuns = 0
    /\ log = <<>>
    /\ aborted = FALSE
    /\ vPc = "idle"
    /\ vValid = FALSE
    /\ vCalls = <<>>
    /\ username = "" /\ password = ""
    /\ loginPc = "idle"
    /\ loginCalls = <<>>
    /\ loginAnswers = <<>>
    /\ loginResponse = NoResponse
    /\ peers \in [Peers -> {Fresh(h, c) : h \in PeerHeaders, c \in Cookies}]
    /\ linksFile = NoFile
    /\ posts = <<>>

ConcNext == \E p \in Peers : PeerStep(p)

ConcSpec == ConcInit /\ [][ConcNext]_vars

\* The state of a request that went through the handler alone with
\* headers h and c and was given the answers anss, in that order.
RECURSIVE RunAlone(_, _)
RunAlone(r, anss) ==
    IF anss = <<>> THEN r
    ELSE RunAlone(PeerAnswered(r, Head(anss)), Tail(anss))

\* The request of Spec and a request of ConcSpec go through the same handler.
GateMatchesRunAlone ==
    (gated /\ pc # "entry") =>
        LET r == RunAlone(PeerEntered(Fresh(authHeader, cookieHeader)), answers) IN
        /\ r.pc = pc
        /\ r.calls = calls
        /\ r.user = reqUser
        /\ r.wooCommerceAuth = reqWooCommerceAuth
        /\ r.nextCalls = nextCalls
        /\ r.responses = responses

-----------------------------------------------------------------------------
(* Vocabulary of the properties *)

ApiKeysConfigured ==
    WOOCOMMERCE_CONSUMER_KEY # "" /\ WOOCOMMERCE_CONSUMER_SECRET # ""

PresentsLocalAdminToken == authHeader = BearerHeader(LocalAdminToken)

\* A bearer token of 50 or more characters with no pre-check applying.
LongTokenRequest ==
    /\ ~ApiKeysConfigured
    /\ authHeader.present /\ authHeader.bearer
    /\ authHeader.token.text \notin {"local-admin-token", "cookie-auth"}
    /\ authHeader.token.len >= ShortTokenThreshold

IsSessionCall(c) == c.method = "GET" /\ c.url.path = "/wp-json/design-tool/v1/auth/validate"
IsBearerCall(c) == c.method = "POST" /\ c.url.path = "/wp-json/jwt-auth/v1/token/validate"

SessionCallIndices == {i \in 1..Len(calls) : IsSessionCall(calls[i])}
BearerCallIndices == {i \in 1..Len(calls) : IsBearerCall(calls[i])}

Admitted == pc = "done" /\ nextCalls = 1 /\ responses = <<>>
Rejected == pc = "done" /\ nextCalls = 0 /\ Len(responses) = 1

\* A 2xx answer carrying one of the two success shapes of bearer validation.
BearerSuccess(ans) ==
    /\ ans.kind = "response" /\ ans.status = 200
    /\ ans.body.hasData
    /\ (ans.body.user.present \/ ans.body.status = 200)

\* A 2xx answer whose body matches neither success shape.
BearerMalformed(ans) ==
    /\ ans.kind = "response" /\ ans.status = 200
    /\ ~(ans.body.hasData /\ (ans.body.user.present \/ ans.body.status = 200))

\* A session answer with valid = true and a user_id.
SessionValid(ans) ==
    /\ ans.kind = "response" /\ ans.status = 200
    /\ ans.body.json /\ ans.body.valid /\ ans.body.user_id \in UserIds

ErrorMessages ==
    {"Unauthorized - Please login", "Invalid authentication",
     "Invalid token or authentication failed", "Authentication error"}

-----------------------------------------------------------------------------
(* Properties *)

\* C1: a request presenting 'Bearer local-admin-token' is admitted with
\* principal {id: 1, role: 'administrator'} and no upstream call is ever
\* issued for it, whatever the configuration, the Cookie header and the
\* upstream.
C1_LocalAdminAdmitted ==
    PresentsLocalAdminToken =>
        /\ calls = <<>>
        /\ responses = <<>>
        /\ pc \in {"entry", "done"}
        /\ pc = "done" => nextCalls = 1 /\ reqUser = AdminUser

C1_Witness ==
    /\ PresentsLocalAdminToken
    /\ ApiKeysConfigured
    /\ cookieHeader # ""
    /\ Admitted

\* C2 as stated: with the API-key pair configured every request, either
\* sentinel included, ends admitted as administrator with the Basic
\* credential attached to the request and without upstream call.
C2_Original ==
    (ApiKeysConfigured /\ pc = "done") =>
        /\ nextCalls = 1
        /\ reqUser = AdminUser
        /\ reqWooCommerceAuth =
               BasicAuth(WOOCOMMERCE_CONSUMER_KEY, WOOCOMMERCE_CONSUMER_SECRET)
        /\ calls = <<>>

\* C2 amended: with the API-key pair configured every request is admitted as
\* {id: 1, role: 'administrator'} without upstream call; the Basic credential
\* is attached to every request except the one presenting
\* 'Bearer local-admin-token', which is admitted by the local-admin check
\* with req.wooCommerceAuth left unset.
C2_ApiKeyBypass ==
    ApiKeysConfigured =>
        /\ calls = <<>>
        /\ responses = <<>>
        /\ pc \in {"entry", "done"}
        /\ pc = "done" =>
              /\ nextCalls = 1
              /\ reqUser = AdminUser
              /\ reqWooCommerceAuth =
                     IF PresentsLocalAdminToken
                     THEN NoAuth
                     ELSE BasicAuth(WOOCOMMERCE_CONSUMER_KEY,
                                    WOOCOMMERCE_CONSUMER_SECRET)

C2_Witness ==
    /\ ApiKeysConfigured
    /\ authHeader = NoHeader
    /\ Admitted
    /\ reqWooCommerceAuth.scheme = "Basic"

\* C3: the local-admin check runs before the API-key check, and both run
\* before any validation: a request satisfying both pre-checks is resolved
\* by the local-admin check (req.wooCommerceAuth is not attached), and when
\* either pre-check applies no upstream call is issued.
C3_PreCheckOrder ==
    /\ (PresentsLocalAdminToken /\ ApiKeysConfigured /\ pc = "done") =>
            (reqUser = AdminUser /\ reqWooCommerceAuth = NoAuth)
    /\ (PresentsLocalAdminToken \/ ApiKeysConfigured) =>
            (SessionCallIndices = {} /\ BearerCallIndices = {})
    /\ (~PresentsLocalAdminToken /\ ApiKeysConfigured /\ pc = "done") =>
            reqWooCommerceAuth # NoAuth

C3_Witness ==
    /\ PresentsLocalAdminToken
    /\ ApiKeysConfigured
    /\ pc = "done"
    /\ nextCalls = 1
    /\ reqWooCommerceAuth = NoAuth

\* C4: every response sent by checkAdminAuth has status 401 and a JSON body
\* whose error field is one of the handler's message strings.
C4_RejectionsAre401 ==
    \A i \in 1..Len(responses) :
        /\ responses[i].status = 401
        /\ responses[i].error \in ErrorMessages

C4_Witness ==
    /\ LongTokenRequest
    /\ Rejected
    /\ Len(calls) = 3
    /\ responses[1].status = 401

\* C5: the handler ends in exactly one outcome: next() called once with
\* req.user set, or one response sent; never both, never neither, and while
\* it is suspended on an upstream call no outcome has been produced.
C5_ExactlyOneOutcome ==
    /\ nextCalls + Len(responses) <= 1
    /\ pc = "done" => nextCalls + Len(responses) = 1
    /\ pc # "done" => nextCalls + Len(responses) = 0
    /\ nextCalls = 1 => reqUser.set
    /\ Len(responses) = 1 => ~reqUser.set

C5_Witness ==
    /\ LongTokenRequest
    /\ Rejected
    /\ Len(answers) = 1
    /\ BearerMalformed(answers[1])

\* C6: every request eventually reaches an outcome (next() or 401), also
\* when the upstream accepts the connection and never answers.
C6_EventuallyOutcome == <>(pc = "done")

C8_CookieOnlyAfterBearerFailure ==
    LongTokenRequest =>
        /\ \A i \in SessionCallIndices :
              /\ i > 1
              /\ \A j \in 1..(i - 1) :
                    IsBearerCall(calls[j]) /\ ~BearerSuccess(answers[j])
        /\ (\E j \in 1..Len(answers) :
                IsBearerCall(calls[j]) /\ BearerSuccess(answers[j])) =>
              (SessionCallIndices = {} /\ Admitted)

C8_Witness ==
    /\ LongTokenRequest
    /\ Admitted
    /\ Len(calls) = 1
    /\ BearerSuccess(answers[1])
    /\ cookieHeader # ""

\* C9: in the long-token branch a request is rejected only after the
\* session-validation fallback has been attempted, however the bearer
\* validation failed (no response, non-2xx, or a 2xx body of neither shape).
C9_FallbackBeforeReject ==
    (LongTokenRequest /\ Rejected) => SessionCallIndices # {}

\* C10: in the long-token branch, when a bearer-validation call gets no
\* response (timeout, connection failure), the next upstream call is the
\* session-validation fallback, and if that answers valid = true with a
\* user_id the request is admitted with that id.
C10_NoResponseFallsBack ==
    LongTokenRequest =>
        \A i \in 1..Len(answers) :
            (IsBearerCall(calls[i]) /\ answers[i].kind = "error") =>
                /\ Len(calls) = i + 1
                /\ IsSessionCall(calls[i + 1])
                /\ (Len(answers) = i + 1 /\ SessionValid(answers[i + 1])) =>
                      /\ Admitted
                      /\ reqUser.id = answers[i + 1].body.user_id

C10_Witness ==
    /\ LongTokenRequest
    /\ Len(answers) = 2
    /\ answers[1].kind = "error"
    /\ SessionValid(answers[2])
    /\ Admitted
    /\ reqUser.id = answers[2].body.user_id

-----------------------------------------------------------------------------
(* Properties of the classification-driven branches *)

\* No Authorization header, or one without the 'Bearer ' prefix, and no
\* API-key pair.
NoBearerRequest ==
    /\ ~ApiKeysConfigured
    /\ ~(authHeader.present /\ authHeader.bearer)

\* A non-sentinel bearer token shorter than 50 characters, no API-key pair.
ShortTokenRequest ==
    /\ ~ApiKeysConfigured
    /\ authHeader.present /\ authHeader.bearer
    /\ authHeader.token.text \notin {"local-admin-token", "cookie-auth"}
    /\ authHeader.token.len < ShortTokenThreshold

\* C11: a request without bearer credential (no API keys) makes exactly one
\* session-validation call and is admitted if and only if the answer is a
\* 2xx body with valid truthy and a user_id, with principal id = user_id;
\* every other answer yields 401.
C11_NoBearerOneSessionCall ==
    NoBearerRequest =>
        /\ Len(calls) <= 1
        /\ pc # "entry" => (Len(calls) = 1 /\ IsSessionCall(calls[1]))
        /\ pc = "done" =>
              /\ Len(answers) = 1
              /\ Admitted <=> SessionValid(answers[1])
              /\ Admitted => reqUser = UserWithId(answers[1].body.user_id)
              /\ ~SessionValid(answers[1]) =>
                    (Rejected /\ responses[1].status = 401)

C11_Witness ==
    /\ NoBearerRequest
    /\ Admitted
    /\ Len(calls) = 1
    /\ SessionValid(answers[1])
    /\ reqUser.id = answers[1].body.user_id

\* C12: a request with neither bearer credential nor Cookie header (no API
\* keys) is rejected with 401 whatever the upstream answers.
C12_NoCredentialRejected ==
    (NoBearerRequest /\ cookieHeader = "" /\ pc = "done") =>
        (Rejected /\ responses[1].status = 401)

\* C13: a request presenting 'Bearer cookie-auth' is admitted with principal
\* {id: 1, role: 'administrator'} and no upstream call is ever issued for
\* it, whatever the Cookie header, the configuration and the upstream.
C13_CookieAuthTrusted ==
    authHeader = BearerHeader(CookieAuthToken) =>
        /\ calls = <<>>
        /\ responses = <<>>
        /\ pc \in {"entry", "done"}
        /\ pc = "done" => nextCalls = 1 /\ reqUser = AdminUser

C13_Witness ==
    /\ authHeader = BearerHeader(CookieAuthToken)
    /\ ~ApiKeysConfigured
    /\ cookieHeader = ""
    /\ Admitted
    /\ reqUser = AdminUser

\* C14: a non-sentinel bearer token shorter than 50 characters (no API
\* keys) leads to exactly one session-validation call and never a
\* bearer-validation call; the request is admitted only on a 2xx answer
\* with valid truthy and a user_id, and every other answer gives 401 with
\* an error body.
C14_ShortTokenOneSessionCall ==
    ShortTokenRequest =>
        /\ BearerCallIndices = {}
        /\ Len(calls) <= 1
        /\ pc # "entry" => (Len(calls) = 1 /\ IsSessionCall(calls[1]))
        /\ pc = "done" =>
              /\ Len(answers) = 1
              /\ Admitted => SessionValid(answers[1])
              /\ ~SessionValid(answers[1]) =>
                    /\ Rejected
                    /\ responses[1].status = 401
                    /\ responses[1].error \in ErrorMessages

C14_Witness ==
    /\ ShortTokenRequest
    /\ Rejected
    /\ Len(calls) = 1
    /\ answers[1].kind = "response" /\ answers[1].status = 200
    /\ answers[1].body.json /\ ~answers[1].body.valid
    /\ responses[1].status = 401

\* The credential class of a header, by the rules of the classifier.
ExpectedKind ==
    IF ~authHeader.present \/ ~authHeader.bearer THEN "none"
    ELSE IF authHeader.token.text = "local-admin-token" THEN "local-admin"
    ELSE IF authHeader.token.text = "cookie-auth" THEN "cookie-auth"
    ELSE IF authHeader.token.len <= ShortTokenThreshold - 1 THEN "short"
    ELSE "long"

\* Where the handler stands right after its synchronous prefix, per class.
ExpectedPosition ==
    CASE ExpectedKind = "none" -> "session_nobearer"
      [] ExpectedKind = "local-admin" -> "done"
      [] ExpectedKind = "cookie-auth" -> "done"
      [] ExpectedKind = "short" -> "session_nonce"
      [] ExpectedKind = "long" -> "jwt_first"

EnabledBranches ==
    {b \in {"local-admin", "api-key", "no-bearer", "cookie-auth", "nonce", "jwt"} :
        CASE b = "local-admin" -> ENABLED LocalAdminAccepted
          [] b = "api-key" -> ENABLED ApiKeyBypass
          [] b = "no-bearer" -> ENABLED NoBearerValidate
          [] b = "cookie-auth" -> ENABLED CookieAuthAccepted
          [] b = "nonce" -> ENABLED NonceValidate
          [] b = "jwt" -> ENABLED JwtValidate}

\* C15: for every Authorization header exactly one branch is taken; where
\* the API-key bypass does not intercept, it is the branch of the header's
\* class: none / local-admin / cookie-auth / short / long, the sentinels
\* before the length test, length 49 short and length 50 long.
C15_ClassificationTotal ==
    /\ (gated /\ pc = "entry") => Cardinality(EnabledBranches) = 1
    /\ (pc # "entry" /\ answers = <<>> /\ ExpectedKind = "local-admin") =>
            (Admitted /\ calls = <<>> /\ reqWooCommerceAuth = NoAuth)
    /\ (~ApiKeysConfigured /\ pc # "entry" /\ answers = <<>>) =>
            /\ pc = ExpectedPosition
            /\ pc = "done" => (Admitted /\ calls = <<>>)
            /\ pc # "done" => Len(calls) = 1

C15_Witness ==
    /\ ~ApiKeysConfigured
    /\ authHeader.bearer
    /\ authHeader.token.text = "opaque"
    /\ authHeader.token.len = ShortTokenThreshold - 1
    /\ pc = "session_nonce"
    /\ answers = <<>>

-----------------------------------------------------------------------------
(* Properties of routing, logging and the upstream calls *)

\* C16: the handler of a route under /api/admin/ runs only for a request
\* that checkAdminAuth has admitted.
C16_HandlerBehindGate ==
    handlerRuns > 0 => (gated /\ Admitted)

\* C17: no line logged by checkAdminAuth contains the complete presented
\* token.
C17_NoRawTokenInLog ==
    (authHeader.present /\ authHeader.bearer /\ authHeader.token.len > 0) =>
        \A i \in 1..Len(log) : log[i].tokenChars < authHeader.token.len

HasSecret(url) ==
    \E k \in 1..Len(url.query) : url.query[k] = <<"sgs-token", WORDPRESS_SECRET_TOKEN>>

AdmittedByBearer ==
    /\ LongTokenRequest
    /\ Admitted
    /\ Len(answers) = Len(calls)
    /\ IsBearerCall(calls[Len(calls)])

\* C19: bearer validation admits only on a success shape that carries an
\* upstream-supplied id, and the principal's id is that id.
C19_BearerIdFromUpstream ==
    AdmittedByBearer =>
        LET body == answers[Len(answers)].body IN
        /\ body.hasData
        /\ \/ body.user.present /\ body.user.id \in UserIds
                /\ reqUser.id = body.user.id
           \/ ~body.user.present /\ body.status = 200 /\ body.id \in UserIds
                /\ reqUser.id = body.id

\* C20: the session-validation call made for a short bearer token carries
\* the raw token value (as nonce or as Authorization) to the upstream.
C20_ShortTokenTransmitted ==
    ShortTokenRequest =>
        \A i \in SessionCallIndices :
            \/ calls[i].nonce = authHeader.token
            \/ calls[i].bearer = authHeader.token

-----------------------------------------------------------------------------
(* Properties of the principal, of aborted requests and of the bypass *)

\* C21: role 'administrator' appears on req.user only via the local-admin
\* sentinel, the API-key bypass or the cookie-auth sentinel, never on a
\* principal obtained through an upstream validation.
C21_NoUpstreamAdministrator ==
    reqUser.role = "administrator" =>
        \/ PresentsLocalAdminToken
        \/ ApiKeysConfigured
        \/ authHeader = BearerHeader(CookieAuthToken)

\* C22: for a request whose caller aborted while an upstream call was
\* outstanding, next() is never called and the route handler never runs.
C22_AbortedNeverAdmitted ==
    aborted => (nextCalls = 0 /\ handlerRuns = 0)

\* C25: every session-validation call carries the inbound Cookie header
\* unchanged when there is one and no Cookie header when there is none, and
\* the call is made in both cases.
C25_CookieForwarded ==
    /\ \A i \in SessionCallIndices :
          /\ calls[i].cookieSent <=> cookieHeader # ""
          /\ calls[i].cookie = cookieHeader
    /\ ((NoBearerRequest \/ ShortTokenRequest) /\ gated /\ pc # "entry") =>
          SessionCallIndices = {1}
    /\ (LongTokenRequest /\ pc = "cookie_fallback") =>
          SessionCallIndices = {Len(calls)}

C25_Witness ==
    /\ LongTokenRequest
    /\ cookieHeader # ""
    /\ pc = "done"
    /\ SessionCallIndices # {}
    /\ \A i \in SessionCallIndices :
          calls[i].cookieSent /\ calls[i].cookie = "wordpress_logged_in=abc"

OnlyOneKeyConfigured ==
    (WOOCOMMERCE_CONSUMER_KEY # "") # (WOOCOMMERCE_CONSUMER_SECRET # "")

\* C28: with only one of consumer key and consumer secret configured the
\* bypass is inactive: no credential is attached, and the request is
\* resolved by the local-admin check or by the branch of its class.
C28_BypassNeedsBothKeys ==
    OnlyOneKeyConfigured =>
        /\ reqWooCommerceAuth = NoAuth
        /\ (pc # "entry" /\ answers = <<>>) =>
              /\ pc = ExpectedPosition
              /\ pc = "done" => (Admitted /\ calls = <<>>)
              /\ pc # "done" => Len(calls) = 1

C28_Witness ==
    /\ WOOCOMMERCE_CONSUMER_KEY # ""
    /\ WOOCOMMERCE_CONSUMER_SECRET = ""
    /\ authHeader = NoHeader
    /\ Rejected
    /\ Len(calls) = 1

-----------------------------------------------------------------------------
(* GET /api/auth/validate against checkAdminAuth *)

\* C29: for the same headers, configuration and upstream behaviour,
\* GET /api/auth/validate answers valid = true exactly when checkAdminAuth
\* admits the request.
C29_ValidateAgreesWithGate ==
    (gated /\ pc = "done" /\ vPc = "done") => (vValid <=> Admitted)

-----------------------------------------------------------------------------
(* POST /api/auth/login *)

IsJwtLoginCall(c) == c.method = "POST" /\ c.url.path = "/wp-json/jwt-auth/v1/token"
IsCookieLoginCall(c) ==
    c.url.path \in {"/wp-json/", "/wp-json/design-tool/v1/auth/login"}
IsWpLoginCall(c) ==
    c.method = "POST" /\ c.url.path = "/wp-json/design-tool/v1/auth/login"

LoginDone == loginPc = "done"
LoginSucceededWith(token) ==
    LoginDone /\ loginResponse = [status |-> 200, token |-> token]

\* C24: the login endpoint returns 'cookie-auth' only when its last upstream
\* call was the cookie login and that call answered success without a
\* nonce; it returns 'local-admin-token' only for the local-admin pair.
C24_SentinelProvenance ==
    /\ loginResponse.token = CookieAuthToken =>
          /\ LoginSucceededWith(CookieAuthToken)
          /\ Len(loginAnswers) = Len(loginCalls)
          /\ loginCalls # <<>>
          /\ IsWpLoginCall(loginCalls[Len(loginCalls)])
          /\ LET ans == loginAnswers[Len(loginAnswers)] IN
                /\ Resolved(ans)
                /\ ans.body.success
                /\ ans.body.nonce = NoToken
    /\ loginResponse.token = LocalAdminToken =>
          /\ username = LOCAL_ADMIN_USER
          /\ password = LOCAL_ADMIN_PASS
          /\ loginCalls = <<>>

C24_Witness ==
    /\ LoginSucceededWith(CookieAuthToken)
    /\ IsWpLoginCall(loginCalls[Len(loginCalls)])

MissingCredentials == username = "" \/ password = ""
LocalAdminCredentials == username = LOCAL_ADMIN_USER /\ password = LOCAL_ADMIN_PASS

\* C26: the login strategies are tried in a fixed order, stopping at the
\* first that succeeds: 400 without a call for missing credentials, then
\* the local-admin pair without a call, then the API-key shortcut without
\* a call, then the JWT login, and the cookie-based login only after every
\* JWT call made was answered without a token.
C26_LoginOrder ==
    /\ loginPc \in {"start", "jwt_first", "jwt_retry", "wp_check", "wp_login", "done"}
    /\ MissingCredentials =>
          /\ loginCalls = <<>>
          /\ LoginDone => loginResponse = [status |-> 400, token |-> NoToken]
    /\ (~MissingCredentials /\ LocalAdminCredentials) =>
          /\ loginCalls = <<>>
          /\ LoginDone => LoginSucceededWith(LocalAdminToken)
    /\ (~MissingCredentials /\ ~LocalAdminCredentials /\ ApiKeysConfigured) =>
          /\ loginCalls = <<>>
          /\ LoginDone => LoginSucceededWith(WooApiKeyToken)
    /\ (~MissingCredentials /\ ~LocalAdminCredentials /\ ~ApiKeysConfigured) =>
          /\ loginPc # "start" =>
                (loginCalls # <<>> /\ IsJwtLoginCall(loginCalls[1]))
          /\ \A i \in 1..Len(loginCalls) :
                IsCookieLoginCall(loginCalls[i]) =>
                    \A j \in 1..(i - 1) :
                        IsJwtLoginCall(loginCalls[j]) =>
                            ~JwtLoginHasToken(loginAnswers[j])
          /\ \A j \in 1..Len(loginAnswers) :
                (IsJwtLoginCall(loginCalls[j]) /\ JwtLoginHasToken(loginAnswers[j])) =>
                    /\ j = Len(loginCalls)
                    /\ LoginSucceededWith(loginAnswers[j].body.token)

C26_Witness ==
    /\ LoginDone
    /\ Len(loginCalls) = 4
    /\ IsJwtLoginCall(loginCalls[1]) /\ IsJwtLoginCall(loginCalls[2])
    /\ loginCalls[3].url.path = "/wp-json/"
    /\ IsWpLoginCall(loginCalls[4])
    /\ loginResponse.status = 200

SentinelTokens == {LocalAdminToken, WooApiKeyToken, CookieAuthToken}

\* C27: a sentinel token returned by the login endpoint, presented as
\* 'Bearer <token>' to checkAdminAuth under the configuration that issued
\* it, is admitted as administrator without any upstream call.
C27_SentinelRoundTrip ==
    (loginResponse.status = 200 /\ loginResponse.token \in SentinelTokens
        /\ gated /\ pc # "idle") =>
        /\ authHeader = BearerHeader(loginResponse.token)
        /\ calls = <<>>
        /\ pc \in {"entry", "done"}
        /\ pc = "entry" =>
              Branch(authHeader) \in {"local-admin", "api-key", "cookie-auth"}
        /\ pc = "done" => (Admitted /\ reqUser = AdminUser)

C27_Witness ==
    /\ LoginSucceededWith(WooApiKeyToken)
    /\ authHeader = BearerHeader(WooApiKeyToken)
    /\ gated
    /\ Admitted
    /\ calls = <<>>

-----------------------------------------------------------------------------
(* The links store *)

StoredLinks == {linksFile.links[i] : i \in 1..Len(linksFile.links)}

\* C30: once all concurrent POST /api/admin/links requests have completed,
\* every link answered with success: true is in the stored list.
C30_NoLostUpdate ==
    (posts # <<>> /\ \A p \in DOMAIN posts : posts[p].pc = "done") =>
        \A p \in DOMAIN posts : posts[p].status = 200 => NewLink(p) \in StoredLinks

-----------------------------------------------------------------------------
(* Concurrent requests *)

PeerPending(p) ==
    /\ peers[p].pc \notin {"entry", "done"}
    /\ Len(peers[p].calls) = Len(peers[p].answers) + 1

\* Every request is where it would be had it run alone with its own
\* headers and the answers it was given, and a request that has not
\* finished can take its next step whatever the others are doing.
PeersIndependent ==
    \A p \in DOMAIN peers :
        /\ peers[p] =
              IF peers[p].pc = "entry"
              THEN Fresh(peers[p].authHeader, peers[p].cookieHeader)
              ELSE RunAlone(PeerEntered(Fresh(peers[p].authHeader,
                                              peers[p].cookieHeader)),
                            peers[p].answers)
        /\ peers[p].pc # "done" => ENABLED PeerStep(p)

\* C23: concurrent requests through checkAdminAuth are independent: each
\* one's outcome is the outcome of running alone with the same credential,
\* configuration and answers, no step modifies the configuration, and a
\* pending request never keeps another from taking its steps.
C23_ConcurrentIndependent ==
    /\ []PeersIndependent
    /\ [][config' = config]_vars

C23_Witness ==
    /\ peers # <<>>
    /\ peers[1].pc = "done" /\ peers[1].nextCalls = 1
    /\ peers[1].user.id = 2
    /\ Len(peers[1].answers) >= 1
    /\ PeerPending(2)
    /\ peers[2].authHeader = peers[1].authHeader

====
